---- MODULE Spec2Model ----
(***************************************************************************)
(* Model of audio.py: the level stream generator _audio_levels, its        *)
(* single-slot queue fed by the pipeline's bus callback on_message, and    *)
(* the two detectors wait_for_sound and ensure_no_glitch that consume it.  *)
(*                                                                         *)
(* Levels are dB values with integral values; Python's float arithmetic    *)
(* on them (sum / len, sum_levels / num_samples) is modelled as IEEE 754   *)
(* binary64 arithmetic, rounding included.  Timestamps are nanoseconds.    *)
(***************************************************************************)
EXTENDS Integers, Sequences, FiniteSets, TLC

\* ---------------------------------------------------------------- bounds
MaxMsgs == 4           \* level messages one pipeline posts

\* ------------------------------------------------------------ configuration
audio_noise_level == 10 \* stbt.get_config('global', 'audio_noise_level'), dB

\* ------------------------------------------------------ program constants
RMS == "rms"
PEAK == "peak"
NsPerSec == 1000000000
QueueMaxSize == 1

MainThread == "MainThread"   \* the thread that calls the detector
BusThread == "BusThread"     \* the thread that runs the bus watch callback

\* ------------------------------------------------------------ input sets
Levels == {10, 30}
ChannelCounts == {1, 2, 3}
Thresholds == {5, 20}
SoundThresholds == {20}
TimeoutSecs == {-1, 0, 1}
MinSamples == {0, 1, 2}
Timestamps == {0, 500000000, 2000000000}

\* the "level" structures a pipeline of c channels posts: the rms and peak
\* tuples of one channel, of two channels of which the first may be loud,
\* or of three channels of which the last is the loudest.  The mean of
\* three channels is no float exactly:
\* after <<2, 2, 15>>, <<11, 11, 30>>, <<2, 2, 15>> the sum of the means is
\* 29.999999999999996 and not 30
LevelStructures(c) ==
    IF c = 1
    THEN {[rms |-> <<r>>, peak |-> <<p>>] : r \in Levels,
                                            p \in Levels} \ {[rms |-> <<30>>, peak |-> <<10>>]}
    ELSE IF c = 2
    THEN {[rms |-> t, peak |-> t] : t \in {<<10, 10>>, <<30, 10>>}}
    ELSE {[rms |-> t, peak |-> t] : t \in {<<2, 2, 15>>, <<11, 11, 30>>}}
\* consecutive_samples arguments: integers N and strings "x/y"
IntSamples == {1, 2}
PairSamples == {<<1, 2>>, <<2, 2>>, <<2, 3>>, <<15, 10>>}

\* ------------------------------------------------------------ arithmetic
\* Python's float is the IEEE 754 binary64 format; its +, / and comparisons
\* are modelled bit for bit, rounding to nearest, ties to even.  Mantissas
\* are natural numbers of more than 32 bits, kept as sequences of limbs in
\* base 2^15, least significant limb first, without leading zero limbs.
\* Overflow to infinity and subnormal results are out of reach of the
\* integers the levels and thresholds are drawn from.
Abs(a) == IF a < 0 THEN -a ELSE a

Base == 2^15
MantBits == 52 + 1     \* the stored 52 bits and the implicit leading one

RECURSIVE NatOfInt(_)
NatOfInt(k) == IF k = 0 THEN <<>> ELSE <<k % Base>> \o NatOfInt(k \div Base)

\* a without its leading zero limbs
RECURSIVE NatTrim(_)
NatTrim(a) ==
    IF a = <<>> THEN <<>>
    ELSE IF a[Len(a)] = 0 THEN NatTrim(SubSeq(a, 1, Len(a) - 1))
    ELSE a

Limb(a, i) == IF i <= Len(a) THEN a[i] ELSE 0

\* a + b + carry
RECURSIVE NatAddC(_, _, _)
NatAddC(a, b, carry) ==
    IF a = <<>> /\ b = <<>> THEN (IF carry = 0 THEN <<>> ELSE <<carry>>)
    ELSE LET t == Limb(a, 1) + Limb(b, 1) + carry
         IN <<t % Base>> \o
            NatAddC(IF a = <<>> THEN <<>> ELSE Tail(a),
                    IF b = <<>> THEN <<>> ELSE Tail(b), t \div Base)

NatAdd(a, b) == NatAddC(a, b, 0)

\* a - b - borrow, for a >= b + borrow, with leading zero limbs
RECURSIVE NatSubB(_, _, _)
NatSubB(a, b, borrow) ==
    IF a = <<>> THEN <<>>
    ELSE LET t == a[1] - Limb(b, 1) - borrow
         IN <<IF t < 0 THEN t + Base ELSE t>> \o
            NatSubB(Tail(a), IF b = <<>> THEN <<>> ELSE Tail(b),
                    IF t < 0 THEN 1 ELSE 0)

NatSub(a, b) == NatTrim(NatSubB(a, b, 0))

\* -1, 0 or 1 as a < b, a = b or a > b
RECURSIVE NatCmp(_, _)
NatCmp(a, b) ==
    IF Len(a) # Len(b) THEN (IF Len(a) < Len(b) THEN -1 ELSE 1)
    ELSE IF a = <<>> THEN 0
    ELSE IF a[Len(a)] # b[Len(b)]
         THEN (IF a[Len(a)] < b[Len(b)] THEN -1 ELSE 1)
    ELSE NatCmp(NatTrim(SubSeq(a, 1, Len(a) - 1)),
                NatTrim(SubSeq(b, 1, Len(b) - 1)))

\* a * m + carry for 0 <= m < Base, with leading zero limbs if a has them
RECURSIVE NatMulSmallC(_, _, _)
NatMulSmallC(a, m, carry) ==
    IF a = <<>> THEN (IF carry = 0 THEN <<>> ELSE <<carry>>)
    ELSE LET t == a[1] * m + carry
         IN <<t % Base>> \o NatMulSmallC(Tail(a), m, t \div Base)

\* <<a \div n, a % n>> for 0 < n < 2 * Base; rem is the remainder brought
\* down from the limbs above
RECURSIVE NatDivSmallR(_, _, _)
NatDivSmallR(a, n, rem) ==
    IF a = <<>> THEN <<<<>>, rem>>
    ELSE LET t == rem * Base + a[Len(a)]
             rest == NatDivSmallR(SubSeq(a, 1, Len(a) - 1), n, t % n)
         IN <<rest[1] \o <<t \div n>>, rest[2]>>

NatDivSmall(a, n) ==
    LET qr == NatDivSmallR(a, n, 0) IN <<NatTrim(qr[1]), qr[2]>>

\* a * 2^d and a \div 2^d
NatShl(a, d) ==
    IF a = <<>> THEN <<>>
    ELSE [i \in 1 .. (d \div 15) |-> 0] \o NatMulSmallC(a, 2^(d % 15), 0)

NatShr(a, d) ==
    IF Len(a) <= d \div 15 THEN <<>>
    ELSE NatDivSmall(SubSeq(a, (d \div 15) + 1, Len(a)), 2^(d % 15))[1]

\* the number of binary digits of k >= 0 and of a
RECURSIVE IntBits(_)
IntBits(k) == IF k = 0 THEN 0 ELSE 1 + IntBits(k \div 2)

NatBits(a) ==
    IF a = <<>> THEN 0 ELSE 15 * (Len(a) - 1) + IntBits(a[Len(a)])

NatOdd(a) == a # <<>> /\ a[1] % 2 = 1

\* the number of zero binary digits at the low end of k > 0
RECURSIVE TrailingZeros(_)
TrailingZeros(k) == IF k % 2 = 1 THEN 0 ELSE 1 + TrailingZeros(k \div 2)

\* a float is a record: inf marks float("inf"); otherwise its value is
\* (-1)^neg * mant * 2^exp with mant odd and of at most MantBits binary
\* digits, or mant = <<>>, exp = 0 and neg = FALSE for 0.0.  Every finite
\* binary64 value has exactly one such record.
Inf == [inf |-> TRUE, neg |-> FALSE, mant |-> <<>>, exp |-> 0]
FloatZero == [inf |-> FALSE, neg |-> FALSE, mant |-> <<>>, exp |-> 0]

\* the record of (-1)^neg * t * 2^e for t > 0 of at most MantBits + 1
\* binary digits, the lowest of them 0 if there are MantBits + 1
RECURSIVE FloatReduce(_, _, _)
FloatReduce(neg, t, e) ==
    IF t[1] = 0 THEN FloatReduce(neg, Tail(t), e + 15)
    ELSE LET z == TrailingZeros(t[1])
         IN [inf |-> FALSE, neg |-> neg,
             mant |-> IF z = 0 THEN t ELSE NatShr(t, z), exp |-> e + z]

\* the float nearest to (-1)^neg * v * 2^e, ties to even, for v = t if
\* more is FALSE and for some v with t < v < t + 1 if more is TRUE (then t
\* has more than MantBits binary digits).  The k digits that do not fit are
\* compared with half a unit of the last digit kept
FloatRoundMore(neg, t, e, more) ==
    IF t = <<>> THEN FloatZero
    ELSE LET k == NatBits(t) - MantBits
         IN IF k <= 0 THEN FloatReduce(neg, t, e)
            ELSE IF k < 15
            THEN LET qr == NatDivSmall(t, 2^k)
                     up == \/ qr[2] > 2^(k - 1)
                           \/ qr[2] = 2^(k - 1) /\ (more \/ NatOdd(qr[1]))
                 IN FloatReduce(neg, IF up THEN NatAdd(qr[1], <<1>>)
                                     ELSE qr[1], e + k)
            ELSE LET q == NatShr(t, k)
                     c == NatCmp(NatSub(t, NatShl(q, k)), NatShl(<<1>>, k - 1))
                     up == c > 0 \/ (c = 0 /\ (more \/ NatOdd(q)))
                 IN FloatReduce(neg, IF up THEN NatAdd(q, <<1>>) ELSE q,
                                e + k)

FloatRound(neg, t, e) == FloatRoundMore(neg, t, e, FALSE)

\* float(a) of an integer a; one of less than 15 binary digits needs no
\* rounding
FloatOfInt(a) ==
    IF a = 0 THEN FloatZero
    ELSE IF Abs(a) < Base
    THEN [inf |-> FALSE, neg |-> a < 0,
          mant |-> <<Abs(a) \div 2^TrailingZeros(Abs(a))>>,
          exp |-> TrailingZeros(Abs(a))]
    ELSE FloatRound(a < 0, NatOfInt(Abs(a)), 0)

\* x and y have mantissas of one limb and exponents at most 15 apart: in
\* units of the lower exponent both are integers below 2^30
FloatsSmall(x, y) ==
    /\ Len(x.mant) = 1 /\ Len(y.mant) = 1
    /\ x.exp - y.exp <= 15 /\ y.exp - x.exp <= 15

\* x in units of 2^e, for x of one limb and e <= x.exp <= e + 15
FloatUnits(x, e) == (IF x.neg THEN -1 ELSE 1) * x.mant[1] * 2^(x.exp - e)

\* the position above the leading binary digit of a finite x # 0
FloatTop(x) == NatBits(x.mant) + x.exp

\* x + y.  The sum of two small operands is an integer of their units and
\* exact.  An operand whose leading digit is more than 64 binary places
\* below the other's is less than a quarter of the other's last place and
\* does not change it
FloatAdd(x, y) ==
    IF x.inf \/ y.inf THEN Inf
    ELSE IF x.mant = <<>> THEN y
    ELSE IF y.mant = <<>> THEN x
    ELSE IF FloatsSmall(x, y)
    THEN LET e == IF x.exp <= y.exp THEN x.exp ELSE y.exp
             t == FloatUnits(x, e) + FloatUnits(y, e)
         IN FloatRound(t < 0, NatOfInt(Abs(t)), e)
    ELSE IF FloatTop(x) - FloatTop(y) > 64 THEN x
    ELSE IF FloatTop(y) - FloatTop(x) > 64 THEN y
    ELSE LET e == IF x.exp <= y.exp THEN x.exp ELSE y.exp
             a == NatShl(x.mant, x.exp - e)
             b == NatShl(y.mant, y.exp - e)
             c == NatCmp(a, b)
         IN IF x.neg = y.neg THEN FloatRound(x.neg, NatAdd(a, b), e)
            ELSE IF c = 0 THEN FloatZero
            ELSE IF c > 0 THEN FloatRound(x.neg, NatSub(a, b), e)
            ELSE FloatRound(y.neg, NatSub(b, a), e)

\* x / k for an integer k with 0 < |k| < 2^16.  The power of two in k only
\* lowers the exponent; the odd rest d of k divides a mantissa of one limb
\* exactly, or else the mantissa is divided to 2 or 3 binary digits more
\* than a float keeps, and the remainder tells whether the quotient is cut
FloatDivInt(x, k) ==
    IF x.inf THEN Inf
    ELSE IF x.mant = <<>> THEN FloatZero
    ELSE LET z == TrailingZeros(Abs(k))
             d == Abs(k) \div 2^z
             neg == x.neg # (k < 0)
         IN IF d = 1
            THEN [inf |-> FALSE, neg |-> neg, mant |-> x.mant,
                  exp |-> x.exp - z]
            ELSE IF Len(x.mant) = 1 /\ x.mant[1] % d = 0
            THEN FloatRound(neg, <<x.mant[1] \div d>>, x.exp - z)
            ELSE LET s == MantBits + 2 + IntBits(d) - NatBits(x.mant)
                     qr == NatDivSmall(NatShl(x.mant, s), d)
                 IN FloatRoundMore(neg, qr[1], x.exp - z - s, qr[2] # 0)

\* -1, 0 or 1 as x < y, x = y or x > y, for finite x and y
FloatSign(x) == IF x.mant = <<>> THEN 0 ELSE IF x.neg THEN -1 ELSE 1

FloatCmp(x, y) ==
    IF FloatSign(x) # FloatSign(y)
    THEN (IF FloatSign(x) < FloatSign(y) THEN -1 ELSE 1)
    ELSE IF FloatSign(x) = 0 THEN 0
    ELSE FloatSign(x) *
         (IF FloatTop(x) # FloatTop(y)
          THEN (IF FloatTop(x) < FloatTop(y) THEN -1 ELSE 1)
          ELSE IF x.exp = y.exp THEN NatCmp(x.mant, y.mant)
          ELSE LET e == IF x.exp <= y.exp THEN x.exp ELSE y.exp
               IN NatCmp(NatShl(x.mant, x.exp - e), NatShl(y.mant, y.exp - e)))

\* l >= t and l > t for a level l and a threshold t (a float, maybe Inf)
LevelGe(l, t) == IF t.inf THEN FALSE ELSE FloatCmp(FloatOfInt(l), t) >= 0
LevelGt(l, t) == IF t.inf THEN FALSE ELSE FloatCmp(FloatOfInt(l), t) > 0

\* sum(levels): the floats are added one by one, starting from 0
RECURSIVE FloatSum(_)
FloatSum(s) ==
    IF s = <<>> THEN FloatZero
    ELSE FloatAdd(FloatSum(SubSeq(s, 1, Len(s) - 1)), FloatOfInt(s[Len(s)]))

\* sum(levels) / len(levels)
MeanLevel(levels) == FloatDivInt(FloatSum(levels), Len(levels))

\* --------------------------------------------- consecutive_samples parsing
Digits == <<"0", "1", "2", "3", "4", "5", "6", "7", "8", "9">>
DigitVal(c) == (CHOOSE i \in 1 .. 10 : Digits[i] = c) - 1

\* str(n) for n >= 0
RECURSIVE StrOfNat(_)
StrOfNat(n) == IF n < 10 THEN <<Digits[n + 1]>>
               ELSE StrOfNat(n \div 10) \o <<Digits[(n % 10) + 1]>>

\* int(s) for a string of decimal digits
RECURSIVE IntOfStr(_)
IntOfStr(s) == IF Len(s) = 1 THEN DigitVal(s[1])
               ELSE IntOfStr(SubSeq(s, 1, Len(s) - 1)) * 10 + DigitVal(s[Len(s)])

\* s.split("/"): the sequence of the pieces between slashes
RECURSIVE Split(_)
Split(s) ==
    IF \A i \in 1 .. Len(s) : s[i] # "/" THEN <<s>>
    ELSE LET i == CHOOSE j \in 1 .. Len(s) :
                      s[j] = "/" /\ \A k \in 1 .. (j - 1) : s[k] # "/"
         IN <<SubSeq(s, 1, i - 1)>> \o Split(SubSeq(s, i + 1, Len(s)))

\* the two forms of the consecutive_samples argument after line 80's str():
\* str(n) of an integer n, and the string "x/y" itself
IntArg(n) == StrOfNat(n)
PairArg(x, y) == StrOfNat(x) \o <<"/">> \o StrOfNat(y)

\* a variant of ParseConsecutiveSamples: a single integer n is read as
\* "1 out of n"
ParseIntegerAsWindow(consecutive_samples) ==
    IF \E i \in 1 .. Len(consecutive_samples) : consecutive_samples[i] = "/"
    THEN <<IntOfStr(Split(consecutive_samples)[1]),
           IntOfStr(Split(consecutive_samples)[2])>>
    ELSE <<1, IntOfStr(consecutive_samples)>>

\* lines 81-86: <<sound_detected_samples, considered_samples>>
ParseConsecutiveSamples(consecutive_samples) ==
    IF \E i \in 1 .. Len(consecutive_samples) : consecutive_samples[i] = "/"
    THEN <<IntOfStr(Split(consecutive_samples)[1]),
           IntOfStr(Split(consecutive_samples)[2])>>
    ELSE <<IntOfStr(consecutive_samples), IntOfStr(consecutive_samples)>>


\* ----------------------------------------------------------------- state
VARIABLES
    pc,                     \* "idle", "wait_for_sound" or "ensure_no_glitch"
                            \* (the detector blocked in last_msg.get), or
                            \* "closing": the call is ending and the finally
                            \* clause of the generator has not run yet
    timeout_secs,           \* argument of the running call
    threshold,              \* argument of the running call
    consecutive_samples,    \* argument of wait_for_sound, as its str()
    min_samples,            \* argument of ensure_no_glitch
    sound_detected_samples, \* wait_for_sound local
    considered_samples,     \* wait_for_sound local
    threshold_level,        \* local of both detectors (a float, maybe Inf)
    samples,                \* wait_for_sound's deque of flags
    levels,                 \* the loop variable; <<>> while it is unbound
    sum_levels,             \* ensure_no_glitch local (a float)
    num_samples,            \* ensure_no_glitch local
    start_timestamp,        \* _audio_levels local: <<>> is None, else <<ts>>
    pipeline,               \* the gst pipeline of the running/last call
    last_msg,               \* the Queue(maxsize=1) of the running/last call
    callback,               \* on_message: idle, or blocked in put with a msg
    posted,                 \* level messages posted by this pipeline
    last_seq,               \* history: arrival number of the message that
                            \* last_msg.get returned last
    clock,                  \* timestamp of the last posted level message
    channels,               \* channel count of this pipeline's readings, 0
                            \* until its first level message shows it
    detector,               \* history: the detector called last
    launched,               \* history: pipelines the last call launched
    outcome,                \* how the last call ended
    result,                 \* the value returned or the error's fields
    stream_end,             \* how the last stream ended
    yielded,                \* history: the readings yielded by the stream
    first_ts,               \* history: timestamp of the first reading yielded
    last_ts,                \* history: timestamp of the last reading yielded
    consumed,               \* history: messages taken from the queue
    playing                 \* history: pipelines set to PLAYING so far minus
                            \* the set_state(NULL) calls so far

locals == <<timeout_secs, threshold, consecutive_samples, min_samples, sound_detected_samples,
            considered_samples, threshold_level, samples, levels, sum_levels,
            num_samples>>
stream == <<start_timestamp, pipeline, last_msg>>
producer == <<callback, posted, clock, channels>>
history == <<detector, launched, outcome, result, stream_end, yielded,
             first_ts, last_ts, consumed, last_seq, playing>>
vars == <<pc, locals, stream, producer, history>>

NoResult == [levels |-> <<>>, threshold_level |-> Inf, timeout_secs |-> 0]
NoPipeline == [state |-> "none", set_playing |-> 0, set_null |-> 0,
               opened_by |-> "none", stopped_by |-> "none"]
NoMsg == [type |-> "none", name |-> "none", timestamp |-> 0,
          structure |-> [rms |-> <<>>, peak |-> <<>>], seq |-> 0]
CallbackIdle == [state |-> "idle", msg |-> NoMsg]

Init ==
    /\ pc = "idle"
    /\ timeout_secs = 0 /\ threshold = 0 /\ min_samples = 0
    /\ consecutive_samples = <<>>
    /\ sound_detected_samples = 0 /\ considered_samples = 0
    /\ threshold_level = Inf /\ samples = <<>> /\ levels = <<>>
    /\ sum_levels = FloatOfInt(0) /\ num_samples = 0
    /\ start_timestamp = <<>> /\ pipeline = NoPipeline /\ last_msg = <<>>
    /\ callback = CallbackIdle /\ posted = 0 /\ clock = 0
    /\ channels = 0 /\ last_seq = 0
    /\ detector = "none" /\ launched = 0
    /\ outcome = "none" /\ result = NoResult /\ stream_end = "none"
    /\ yielded = <<>> /\ first_ts = 0 /\ last_ts = 0 /\ consumed = 0
    /\ playing = 0

\* ------------------------------------------------------- the gst pipeline
\* pipeline.set_state(state), called by thread
set_state(p, state, thread) ==
    IF state = "PLAYING"
    THEN [p EXCEPT !.state = "PLAYING", !.set_playing = @ + 1,
                   !.opened_by = thread]
    ELSE [p EXCEPT !.state = "NULL", !.set_null = @ + 1,
                   !.stopped_by = thread]

\* lines 166-168: gst.parse_launch(...), add_watch, set_state(PLAYING)
parse_launch_and_play(thread) == set_state(NoPipeline, "PLAYING", thread)

\* the level messages a pipeline of c channels may post next: timestamps
\* never go back
LevelMessages(c, now) ==
    [type : {"element"}, name : {"level"},
     timestamp : {t \in Timestamps : t >= now},
     structure : UNION {LevelStructures(n) :
                           n \in {k \in ChannelCounts : c \in {0, k}}}]

\* the level messages considered once the call is ending: nothing reads
\* them any more, so one timestamp and the quiet structures stand for all
LateMessages(c, now) ==
    {m \in LevelMessages(c, now) :
         /\ m.timestamp = now
         /\ m.structure.rms = m.structure.peak
         /\ \A i \in 1..Len(m.structure.rms) :
                \E l \in Levels : m.structure.rms[i] < l}

\* bus messages that are not level messages
OtherMessages ==
    {[type |-> "element", name |-> "other", timestamp |-> 0,
      structure |-> [rms |-> <<>>, peak |-> <<>>]],
     [type |-> "state-changed", name |-> "level", timestamp |-> 0,
      structure |-> [rms |-> <<>>, peak |-> <<>>]]}

\* ------------------------------------------------------------ _audio_levels
\* line 174: `not start_timestamp` is true of None and of 0
NotStartTimestamp(st) == st = <<>> \/ st[1] = 0

\* a variant of AudioLevelsResume: the stream ends at a message that is
\* exactly timeout_secs after the start as well
AudioLevelsResumeAtTimeout(msg, st, timeout, method) ==
    LET start == IF NotStartTimestamp(st) THEN <<msg.timestamp>> ELSE st
    IN IF msg.timestamp - start[1] >= timeout * NsPerSec
       THEN [exit |-> "return", start_timestamp |-> start, levels |-> <<>>]
       ELSE [exit |-> "yield", start_timestamp |-> start,
             levels |-> msg.structure[method]]

\* lines 174-183, run on the message that last_msg.get returned: the
\* generator either returns (exit "return") or yields the method's levels
AudioLevelsResume(msg, st, timeout, method) ==
    LET start == IF NotStartTimestamp(st) THEN <<msg.timestamp>> ELSE st
    IN IF msg.timestamp - start[1] > timeout * NsPerSec
       THEN [exit |-> "return", start_timestamp |-> start, levels |-> <<>>]
       ELSE [exit |-> "yield", start_timestamp |-> start,
             levels |-> msg.structure[method]]

\* a variant of AudioLevelsReturn: the return of line 177 outside the try
AudioLevelsReturnOutsideTry(p, thread) == p

\* lines 184-185, reached from the `return` of line 177
AudioLevelsReturn(p, thread) == set_state(p, "NULL", thread)

\* lines 184-185, reached when last_msg.get raises Queue.Empty
AudioLevelsEmpty(p, thread) == set_state(p, "NULL", thread)

\* a variant of AudioLevelsClose: the suspended generator is not finalised
\* when the loop is left
AudioLevelsCloseNotRun(p, thread) == p

\* lines 184-185, reached when the suspended generator is closed: the
\* detector leaves its for loop (return or raise), the loop's reference to
\* the generator is dropped, and the generator's finaliser throws
\* GeneratorExit at the yield of line 183, in the thread that left the loop
AudioLevelsClose(p, thread) == set_state(p, "NULL", thread)

\* ----------------------------------------------------------- the detectors
\* a variant of DequeAppend: a full deque keeps its entries and drops x
DequeAppendKeepsOldest(q, x, maxlen) ==
    IF Len(q) >= maxlen THEN q ELSE Append(q, x)

\* deque(maxlen=maxlen).append(x)
DequeAppend(q, x, maxlen) ==
    IF maxlen = 0 THEN <<>>
    ELSE IF Len(q) >= maxlen THEN Append(Tail(q), x)
    ELSE Append(q, x)

\* samples.count(True)
RECURSIVE CountTrue(_)
CountTrue(q) == IF q = <<>> THEN 0
                ELSE (IF Head(q) THEN 1 ELSE 0) + CountTrue(Tail(q))

\* line 101: bool([l for l in levels if l >= threshold_level])
AnyLevelGe(lv, t) == \E i \in 1 .. Len(lv) : LevelGe(lv[i], t)

\* line 131-132: [l for l in levels if l > threshold_level], as a bool
AnyLevelGt(lv, t) == \E i \in 1 .. Len(lv) : LevelGt(lv[i], t)

\* a variant of SoundDetected: the count has to exceed the detected count
SoundDetectedStrict(q, detected) == CountTrue(q) > detected

\* line 102
SoundDetected(q, detected) == CountTrue(q) >= detected

\* a variant of GlitchCheck: detection starts one reading earlier
GlitchCheckFromMin(n, minimum, lv, t) == n >= minimum /\ AnyLevelGt(lv, t)

\* a variant of GlitchCheck: no warm-up count at all
GlitchCheckNoWarmUp(n, minimum, lv, t) == AnyLevelGt(lv, t)

\* a variant of ExceedsConsidered: the comparison the other way round
ExceedsConsideredSwapped(detected, considered) == considered > detected

\* line 88
ExceedsConsidered(detected, considered) == detected > considered

\* line 131-132
GlitchCheck(n, minimum, lv, t) == n > minimum /\ AnyLevelGt(lv, t)

\* a variant of GlitchThreshold: the sum is not divided by the count
GlitchThresholdOfSum(th, total, n) == FloatAdd(FloatOfInt(th), total)

\* line 136
GlitchThreshold(th, total, n) == FloatAdd(FloatOfInt(th), FloatDivInt(total, n))

\* a variant of SoundThreshold: the noise floor is left out
SoundThresholdNoNoise(th, noise) == FloatOfInt(th)

\* line 92-93
SoundThreshold(th, noise) == FloatAdd(FloatOfInt(th), FloatOfInt(noise))

\* ---------------------------------------------------------------- actions
\* the first next() on the generator: lines 153-170, up to last_msg.get
OpenStream ==
    /\ start_timestamp' = <<>>
    /\ pipeline' = parse_launch_and_play(MainThread)
    /\ last_msg' = <<>>
    /\ callback' = CallbackIdle
    /\ posted' = 0 /\ clock' = 0
    /\ channels' = 0
    /\ playing' = playing + 1
    /\ launched' = 1

ResetHistory ==
    /\ yielded' = <<>> /\ first_ts' = 0 /\ last_ts' = 0 /\ consumed' = 0
    /\ last_seq' = 0

\* the call is ending with outcome o and fields r, the stream ending by
\* `end`; the finally clause of the generator is still to run
EndCall(o, r, end) ==
    /\ pc' = "closing"
    /\ outcome' = o /\ result' = r /\ stream_end' = end
    /\ UNCHANGED <<pipeline, playing>>

\* wait_for_sound, lines 80-100: the call up to its first last_msg.get, or
\* its ConfigurationError
wait_for_sound(timeout, cs, th) ==
    /\ pc = "idle"
    /\ detector' = "wait_for_sound"
    /\ ResetHistory
    /\ LET parsed == ParseConsecutiveSamples(cs)
       IN /\ timeout_secs' = timeout /\ threshold' = th
          /\ consecutive_samples' = cs
          /\ sound_detected_samples' = parsed[1]
          /\ considered_samples' = parsed[2]
          /\ min_samples' = 0 /\ sum_levels' = FloatOfInt(0)
          /\ num_samples' = 0
          /\ samples' = <<>> /\ levels' = <<>>
          /\ IF ExceedsConsidered(parsed[1], parsed[2])
             THEN /\ pc' = "idle"
                  /\ outcome' = "ConfigurationError" /\ result' = NoResult
                  /\ stream_end' = "none"
                  /\ threshold_level' = Inf
                  /\ /\ launched' = 0
                  /\ UNCHANGED <<stream, producer, playing>>
             ELSE /\ pc' = "wait_for_sound"
                  /\ outcome' = "none" /\ result' = NoResult
                  /\ stream_end' = "none"
                  /\ threshold_level' = SoundThreshold(th, audio_noise_level)
                  /\ OpenStream

\* ensure_no_glitch, lines 125-130: the call up to its first last_msg.get
ensure_no_glitch(timeout, th, minimum) ==
    /\ pc = "idle"
    /\ detector' = "ensure_no_glitch"
    /\ ResetHistory
    /\ timeout_secs' = timeout /\ threshold' = th /\ min_samples' = minimum
    /\ consecutive_samples' = <<>>
    /\ sound_detected_samples' = 0 /\ considered_samples' = 0
    /\ samples' = <<>> /\ levels' = <<>>
    /\ sum_levels' = FloatOfInt(0) /\ num_samples' = 0
    /\ threshold_level' = Inf
    /\ pc' = "ensure_no_glitch"
    /\ outcome' = "none" /\ result' = NoResult /\ stream_end' = "none"
    /\ OpenStream

\* what one last_msg.get does to the stream's history
Consume(msg, g) ==
    /\ last_msg' = <<>>
    /\ start_timestamp' = g.start_timestamp
    /\ consumed' = consumed + 1
    /\ last_seq' = msg.seq
    /\ IF g.exit = "yield"
       THEN /\ yielded' = Append(yielded, g.levels)
            /\ first_ts' = IF yielded = <<>> THEN msg.timestamp ELSE first_ts
            /\ last_ts' = msg.timestamp
       ELSE UNCHANGED <<yielded, first_ts, last_ts>>

\* wait_for_sound, lines 100-106: one message from last_msg.get through the
\* generator (lines 173-185) and the loop body, up to the next last_msg.get
\* or to the end of the call
wait_for_sound_next ==
    /\ pc = "wait_for_sound" /\ last_msg # <<>>
    /\ LET msg == Head(last_msg)
           g == AudioLevelsResume(msg, start_timestamp, timeout_secs, RMS)
           q == DequeAppend(samples, AnyLevelGe(g.levels, threshold_level),
                            considered_samples)
       IN /\ Consume(msg, g)
          /\ IF g.exit = "return"
             THEN \* StopIteration ends the loop: line 106
                  /\ UNCHANGED <<samples, levels>>
                  /\ IF levels = <<>>
                     THEN EndCall("UnboundLocalError", NoResult, "timeout")
                     ELSE EndCall("LowAudio",
                                  [levels |-> levels,
                                   threshold_level |-> threshold_level,
                                   timeout_secs |-> timeout_secs],
                                  "timeout")
             ELSE /\ levels' = g.levels
                  /\ samples' = q
                  /\ IF SoundDetected(q, sound_detected_samples)
                     THEN EndCall("return",
                                  [NoResult EXCEPT !.levels = g.levels],
                                  "closed")
                     ELSE UNCHANGED <<pc, outcome, result, stream_end,
                                      pipeline, playing>>
    /\ UNCHANGED <<timeout_secs, threshold, consecutive_samples, min_samples,
                   sound_detected_samples, considered_samples,
                   threshold_level, sum_levels, num_samples, producer,
                   detector, launched>>

\* ensure_no_glitch, lines 130-136: one message from last_msg.get through
\* the generator and the loop body
ensure_no_glitch_next ==
    /\ pc = "ensure_no_glitch" /\ last_msg # <<>>
    /\ LET msg == Head(last_msg)
           g == AudioLevelsResume(msg, start_timestamp, timeout_secs, PEAK)
       IN /\ Consume(msg, g)
          /\ IF g.exit = "return"
             THEN \* StopIteration ends the loop: the function returns None
                  /\ UNCHANGED <<levels, sum_levels, num_samples,
                                 threshold_level>>
                  /\ EndCall("return", NoResult, "timeout")
             ELSE /\ levels' = g.levels
                  /\ IF GlitchCheck(num_samples, min_samples, g.levels,
                                    threshold_level)
                     THEN /\ UNCHANGED <<sum_levels, num_samples,
                                         threshold_level>>
                          /\ EndCall("GlitchDetected",
                                     [NoResult EXCEPT
                                        !.levels = g.levels,
                                        !.threshold_level = threshold_level],
                                     "closed")
                     ELSE /\ sum_levels' =
                                 FloatAdd(sum_levels, MeanLevel(g.levels))
                          /\ num_samples' = num_samples + 1
                          /\ threshold_level' =
                                 GlitchThreshold(threshold, sum_levels',
                                                 num_samples')
                          /\ UNCHANGED <<pc, outcome, result, stream_end,
                                         pipeline, playing>>
    /\ UNCHANGED <<timeout_secs, threshold, consecutive_samples, min_samples,
                   sound_detected_samples, considered_samples, samples,
                   producer, detector, launched>>

\* a variant of Propagate: the detector takes the error for the end of the
\* stream
PropagateAsExhaustion(d, error) ==
    IF d = "wait_for_sound" THEN "LowAudio" ELSE "return"

\* lines 100 and 130: neither detector's for loop is inside a try statement,
\* so an error raised by the generator leaves the detector d unchanged
Propagate(d, error) == error

\* line 173: no message within the 2 s of last_msg.get(timeout=2): Queue.Empty
\* is raised in the generator, passes the finally clause and the detector
get_timeout ==
    /\ pc \in {"wait_for_sound", "ensure_no_glitch"}
    /\ last_msg = <<>> /\ callback.state = "idle"
    /\ EndCall(Propagate(pc, "Empty"), NoResult, "stall")
    /\ UNCHANGED <<locals, start_timestamp, last_msg, producer,
                   yielded, first_ts, last_ts, consumed, last_seq, detector,
                   launched>>

\* lines 184-185: the finally clause of the generator sets the pipeline to
\* NULL, in the thread of the detector, and the call ends. The bus thread
\* runs on until then: messages may arrive between the last last_msg.get
\* and this step
audio_levels_finally ==
    /\ pc = "closing"
    /\ pc' = "idle"
    /\ LET p == CASE stream_end = "timeout" ->
                         AudioLevelsReturn(pipeline, MainThread)
                   [] stream_end = "stall" ->
                         AudioLevelsEmpty(pipeline, MainThread)
                   [] OTHER -> AudioLevelsClose(pipeline, MainThread)
       IN /\ pipeline' = p
          /\ playing' = playing - (p.set_null - pipeline.set_null)
    /\ UNCHANGED <<locals, start_timestamp, last_msg, producer, detector,
                   launched, outcome, result, stream_end, yielded, first_ts,
                   last_ts, consumed, last_seq>>

\* the message msg with its arrival number n
Tagged(msg, n) ==
    [type |-> msg.type, name |-> msg.name, timestamp |-> msg.timestamp,
     structure |-> msg.structure, seq |-> n]

\* a variant of Put: a put on the full queue replaces the buffered message
PutOverwrite(q, msg) ==
    IF Len(q) < QueueMaxSize
    THEN [queue |-> Append(q, msg), blocked |-> FALSE]
    ELSE [queue |-> Append(Tail(q), msg), blocked |-> FALSE]

\* line 158: last_msg.put(msg) on the queue q of line 153: the message is
\* appended if the queue has room, otherwise the caller blocks and the
\* queue is left as it is
Put(q, msg) ==
    IF Len(q) < QueueMaxSize
    THEN [queue |-> Append(q, msg), blocked |-> FALSE]
    ELSE [queue |-> q, blocked |-> TRUE]

\* lines 155-159: the bus watch calls on_message with a message of the
\* playing pipeline; a message that is not a level message is ignored, and
\* last_msg.put blocks while the queue is full
on_message(msg) ==
    /\ pipeline.state = "PLAYING" /\ callback.state = "idle"
    /\ IF msg.type = "element" /\ msg.name = "level"
       THEN /\ posted < MaxMsgs
            /\ posted' = posted + 1
            /\ clock' = msg.timestamp
            /\ channels' = Len(msg.structure.rms)
            /\ LET m == Tagged(msg, posted + 1)
                   put == Put(last_msg, m)
               IN /\ last_msg' = put.queue
                  /\ callback' = IF put.blocked
                                 THEN [state |-> "blocked", msg |-> m]
                                 ELSE callback
       ELSE UNCHANGED <<last_msg, callback, posted, clock, channels>>
    /\ UNCHANGED <<pc, locals, start_timestamp, pipeline, history>>

\* line 158: a put that was blocked on the full queue goes through
put_unblocked ==
    /\ callback.state = "blocked" /\ Len(last_msg) < QueueMaxSize
    /\ last_msg' = Append(last_msg, callback.msg)
    /\ callback' = CallbackIdle
    /\ UNCHANGED <<pc, locals, start_timestamp, pipeline, posted, clock,
                   channels, history>>

Next ==
    \/ \E t \in TimeoutSecs, n \in IntSamples, th \in SoundThresholds :
           wait_for_sound(t, IntArg(n), th)
    \/ \E t \in TimeoutSecs, xy \in PairSamples, th \in SoundThresholds :
           wait_for_sound(t, PairArg(xy[1], xy[2]), th)
    \/ \E t \in TimeoutSecs, th \in Thresholds, m \in MinSamples :
           ensure_no_glitch(t, th, m)
    \/ wait_for_sound_next
    \/ ensure_no_glitch_next
    \/ get_timeout
    \/ audio_levels_finally
    \/ \E msg \in (IF pc = "closing" THEN LateMessages(channels, clock)
                    ELSE LevelMessages(channels, clock)) \cup OtherMessages :
           on_message(msg)
    \/ put_unblocked

Spec == Init /\ [][Next]_vars

\* ------------------------------------------------ statements about a call
\* the call that ended last (or is still running) is of detector d
SoundCall == detector = "wait_for_sound"
GlitchCall == detector = "ensure_no_glitch"
Ended == pc = "idle" /\ outcome # "none"

\* reading k of the stream has some channel at or above noise + threshold
Loud(k) == \E i \in 1 .. Len(yielded[k]) :
               yielded[k][i] >= audio_noise_level + threshold

\* the readings among the last min(k, W) up to and including k that are loud
LoudInWindow(k) ==
    {j \in 1 .. k : j > k - considered_samples /\ Loud(j)}

\* at reading k the count of loud readings in the window reaches D
Reached(k) == Cardinality(LoudInWindow(k)) >= sound_detected_samples

\* C1: wait_for_sound (with D <= W) returns success iff at some reading k
\* at least D of the last min(k, W) readings have a channel >= the
\* threshold level; otherwise, when the stream is exhausted, it raises
\* LowAudio.
C1_SuccessIffReachedElseLowAudio ==
    (SoundCall /\ Ended /\ sound_detected_samples <= considered_samples) =>
        /\ (outcome = "return") <=> (\E k \in 1 .. Len(yielded) : Reached(k))
        /\ (stream_end = "timeout" /\ ~(\E k \in 1 .. Len(yielded) : Reached(k)))
               => outcome = "LowAudio"

\* C2: when wait_for_sound succeeds, it returns at the earliest reading at
\* which the count in the window reaches D, it returns that reading's
\* levels, and no message is taken from the queue after that reading.
C2_ReturnsAtEarliestReading ==
    (SoundCall /\ Ended /\ outcome = "return") =>
        /\ Len(yielded) >= 1
        /\ Reached(Len(yielded))
        /\ \A k \in 1 .. (Len(yielded) - 1) : ~Reached(k)
        /\ result.levels = yielded[Len(yielded)]
        /\ consumed = Len(yielded)

\* "2/3" on flags no, yes, no, yes: success at the 4th reading
C2_Witness ==
    /\ SoundCall /\ Ended /\ outcome = "return"
    /\ sound_detected_samples = 2 /\ considered_samples = 3
    /\ yielded = << <<10>>, <<30>>, <<10>>, <<30>> >>
    /\ result.levels = <<30>>

\* C3: when the stream ends by itself (timeout or stall), the pipeline that
\* was set to PLAYING has been set to NULL exactly once when the call has
\* ended; and whenever no call is running, as many pipelines have been
\* stopped as started and none is left playing.
C3_StoppedOnceWhenStreamEnds ==
    /\ (pc = "idle" /\ stream_end \in {"timeout", "stall"}) =>
           /\ launched = 1
           /\ pipeline.set_playing = 1
           /\ pipeline.set_null = 1
           /\ pipeline.state = "NULL"
    /\ pc = "idle" => (playing = 0 /\ pipeline.state # "PLAYING")
    /\ pc # "idle" => (playing = 1 /\ pipeline.state = "PLAYING"
                       /\ pipeline.set_null = 0)

C3_Witness ==
    /\ pc = "idle" /\ stream_end = "timeout" /\ outcome = "LowAudio"
    /\ pipeline.state = "NULL" /\ pipeline.set_null = 1

\* C4: when the detector leaves the loop early (wait_for_sound returning,
\* ensure_no_glitch raising GlitchDetected), the pipeline has been set to
\* NULL exactly once, by the thread that opened it, when the call has ended.
C4_StoppedOnceOnEarlyExit ==
    (pc = "idle" /\ outcome \in {"return", "GlitchDetected"}
        /\ stream_end # "timeout") =>
        /\ stream_end = "closed"
        /\ pipeline.set_playing = 1
        /\ pipeline.set_null = 1
        /\ pipeline.state = "NULL"
        /\ pipeline.stopped_by = pipeline.opened_by
        /\ pipeline.opened_by = MainThread
        /\ playing = 0

C4_Witness ==
    /\ pc = "idle" /\ outcome = "GlitchDetected" /\ Len(yielded) >= 2
    /\ pipeline.state = "NULL" /\ pipeline.stopped_by = MainThread

\* C5: if the detected count exceeds the window size, wait_for_sound fails
\* with ConfigurationError, and that call launches, starts and stops no
\* pipeline and consumes no reading.
C5_ConfigurationErrorBeforeStream ==
    (SoundCall /\ sound_detected_samples > considered_samples) =>
        /\ pc = "idle"
        /\ outcome = "ConfigurationError"
        /\ launched = 0 /\ stream_end = "none"
        /\ consumed = 0 /\ yielded = <<>>
        /\ playing = 0 /\ pipeline.state # "PLAYING"
        /\ pipeline.set_playing + pipeline.set_null \in {0, 2}

\* the second call of a behaviour is "15/10": the first call's pipeline is
\* left as it was
C5_Witness ==
    /\ SoundCall /\ outcome = "ConfigurationError"
    /\ sound_detected_samples = 15 /\ considered_samples = 10
    /\ pipeline.state = "NULL" /\ launched = 0

\* the floats sum_levels goes through: the mean-across-channels levels of
\* the first n readings, added one by one in arrival order
RECURSIVE SumOfMeans(_)
SumOfMeans(n) ==
    IF n = 0 THEN FloatZero
    ELSE FloatAdd(SumOfMeans(n - 1), MeanLevel(yielded[n]))

\* th plus the mean of the first n >= 1 readings, as floats
ThresholdAfter(n, th) ==
    FloatAdd(FloatOfInt(th), FloatDivInt(SumOfMeans(n), n))

\* some channel of reading k is strictly above th plus the mean, over the
\* n = k - 1 readings before it, of their mean-across-channels levels
AboveMeanOfPrevious(k, th) ==
    /\ k > 1
    /\ LET t == ThresholdAfter(k - 1, th)
       IN \E i \in 1 .. Len(yielded[k]) : LevelGt(yielded[k][i], t)

\* reading k is one at which ensure_no_glitch has to raise
Trigger(k) == (k - 1) > min_samples /\ AboveMeanOfPrevious(k, threshold)

\* the float t equals th plus the mean of the readings before reading k
IsThresholdAt(t, k, th) == k > 1 /\ t = ThresholdAfter(k - 1, th)

\* C6: the stream ends, without error, at the first message whose timestamp
\* is more than timeout_secs after the first reading's; that message is not
\* yielded, and every reading yielded has a timestamp at most timeout_secs
\* after the timestamp of the first reading of the stream.
C6_YieldedWithinTimeoutOfFirst ==
    /\ yielded # <<>> => last_ts - first_ts <= timeout_secs * NsPerSec
    /\ stream_end = "timeout" => consumed = Len(yielded) + 1

\* C7: ensure_no_glitch checks each reading before adding it to the
\* average: it raises GlitchDetected at the first reading at which
\* num_samples > min_samples holds and some channel is strictly above
\* threshold plus the mean of the previous readings, with that reading's
\* levels and that threshold; with no such reading it returns normally when
\* the stream is exhausted.
C7_GlitchAtFirstTrigger ==
    GlitchCall =>
        /\ \A k \in 1 .. (Len(yielded) - 1) : ~Trigger(k)
        /\ outcome = "GlitchDetected" =>
               /\ Len(yielded) >= 1
               /\ Trigger(Len(yielded))
               /\ result.levels = yielded[Len(yielded)]
               /\ IsThresholdAt(result.threshold_level, Len(yielded),
                                threshold)
        /\ (outcome # "GlitchDetected" /\ Len(yielded) >= 1) =>
               ~Trigger(Len(yielded))
        /\ (Ended /\ stream_end = "timeout") => outcome = "return"

\* min_samples 2, threshold 5, levels 10, 10, 10, 30: GlitchDetected at the
\* 4th reading with levels (30,) and threshold 15
C7_Witness ==
    /\ GlitchCall /\ outcome = "GlitchDetected"
    /\ min_samples = 2 /\ threshold = 5
    /\ yielded = << <<10>>, <<10>>, <<10>>, <<30>> >>
    /\ result.levels = <<30>> /\ result.threshold_level = FloatOfInt(15)

\* C8: GlitchDetected is never raised at one of the first min_samples
\* readings, whatever their levels; those readings only update the running
\* average.
C8_NoGlitchInFirstMinSamples ==
    GlitchCall =>
        /\ outcome = "GlitchDetected" => Len(yielded) > min_samples
        /\ (Len(yielded) >= 1 /\ Len(yielded) <= min_samples) =>
               /\ num_samples = Len(yielded)
               /\ sum_levels = SumOfMeans(Len(yielded))

\* min_samples 2, threshold 5: the 2nd reading, 30, is above 5 + 10 and the
\* call goes on
C8_Witness ==
    /\ GlitchCall /\ pc = "ensure_no_glitch"
    /\ min_samples = 2 /\ threshold = 5
    /\ yielded = << <<10>>, <<30>> >>
    /\ num_samples = 2 /\ sum_levels = FloatOfInt(40)

\* C9: detection starts once the average has been determined from
\* min_samples readings: if a channel of the reading that follows the first
\* min_samples readings is above threshold plus the average of those
\* readings, ensure_no_glitch raises GlitchDetected at that reading.
C9_DetectionStartsAfterMinSamples ==
    (GlitchCall /\ min_samples >= 1 /\ Len(yielded) = min_samples + 1
        /\ AboveMeanOfPrevious(min_samples + 1, threshold)) =>
        outcome = "GlitchDetected"

\* C10: when last_msg.get times out, the call ends with the error of the
\* stream: wait_for_sound does not raise LowAudio, ensure_no_glitch does not
\* return, and no second pipeline is launched.
C10_StallPropagates ==
    /\ (pc = "idle" /\ stream_end = "stall") =>
           /\ outcome = "Empty"
           /\ launched = 1 /\ pipeline.set_playing = 1
    /\ outcome = "Empty" => stream_end = "stall"

\* a stall after two readings, the overall timeout not reached
C10_Witness ==
    /\ pc = "idle" /\ stream_end = "stall" /\ outcome = "Empty"
    /\ timeout_secs = 1 /\ Len(yielded) = 2
    /\ last_ts - first_ts <= timeout_secs * NsPerSec

\* C11: if the stream is exhausted with zero readings, wait_for_sound still
\* fails with LowAudio and no other error, and the error carries the
\* configured timeout_secs.
C11_LowAudioOnZeroReadings ==
    (SoundCall /\ Ended /\ stream_end = "timeout" /\ yielded = <<>>) =>
        /\ outcome = "LowAudio"
        /\ result.timeout_secs = timeout_secs

\* C12: when the stream is exhausted after at least one reading (the count
\* never having been reached), wait_for_sound raises LowAudio with the
\* levels of the last reading the stream yielded, threshold_level equal to
\* the noise floor plus the threshold margin, and the configured
\* timeout_secs.
C12_LowAudioCarriesLastReading ==
    (SoundCall /\ Ended /\ stream_end = "timeout" /\ yielded # <<>>) =>
        /\ outcome = "LowAudio"
        /\ \A k \in 1 .. Len(yielded) : ~Reached(k)
        /\ result.levels = yielded[Len(yielded)]
        /\ result.threshold_level = FloatOfInt(audio_noise_level + threshold)
        /\ result.timeout_secs = timeout_secs

\* exhaustion of a one-second timeout after a loud and then a quiet reading
\* with "2": the error carries the quiet reading
C12_Witness ==
    /\ SoundCall /\ Ended /\ stream_end = "timeout" /\ outcome = "LowAudio"
    /\ timeout_secs = 1 /\ sound_detected_samples = 2
    /\ yielded = << <<30>>, <<10>> >>
    /\ result = [levels |-> <<10>>, threshold_level |-> FloatOfInt(30),
                 timeout_secs |-> 1]

\* the on_message invocation is blocked in last_msg.put
Blocked == callback.state = "blocked"

\* C13: the queue between on_message and the consuming loop buffers at most
\* one level message; a level message that arrives while one is buffered
\* blocks its on_message (it is not dropped and does not replace the
\* buffered one); so every level message that arrived has been consumed, is
\* buffered or is held by the blocked on_message, the buffered message is
\* the next in arrival order, and the k-th message the loop received is
\* the k-th that arrived.
C13_SingleSlotHandoffInOrder ==
    launched = 1 =>
        /\ Len(last_msg) <= QueueMaxSize
        /\ posted = consumed + Len(last_msg) + (IF Blocked THEN 1 ELSE 0)
        /\ last_msg # <<>> => Head(last_msg).seq = consumed + 1
        /\ Blocked => callback.msg.seq = consumed + Len(last_msg) + 1
        /\ last_seq = consumed
        /\ Len(yielded) <= consumed

\* two readings consumed, the third message buffered, the fourth blocked
C13_Witness ==
    /\ pc \in {"wait_for_sound", "ensure_no_glitch"}
    /\ consumed = 2 /\ Len(yielded) = 2 /\ last_seq = 2
    /\ Len(last_msg) = 1 /\ Head(last_msg).seq = 3
    /\ Blocked /\ callback.msg.seq = 4

\* readings k-n+1 .. k of the stream are all loud
ConsecutiveLoud(n, k) == k >= n /\ \A j \in (k - n + 1) .. k : Loud(j)

\* C14: a single integer N as consecutive_samples means "N out of N": the
\* call succeeds iff the stream yields N consecutive loud readings, and the
\* integer form and the pair form "N/N" give the same counts, hence the
\* same outcome on every sequence of readings.
C14_IntegerIsNOutOfN ==
    \A n \in IntSamples :
        (SoundCall /\ consecutive_samples \in {IntArg(n), PairArg(n, n)}) =>
            /\ sound_detected_samples = n /\ considered_samples = n
            /\ ParseConsecutiveSamples(IntArg(n)) =
                   ParseConsecutiveSamples(PairArg(n, n))
            /\ Ended => ((outcome = "return") <=>
                            \E k \in 1 .. Len(yielded) : ConsecutiveLoud(n, k))
            /\ (pc = "wait_for_sound") =>
                   ~ \E k \in 1 .. Len(yielded) : ConsecutiveLoud(n, k)

\* the integer 2 on loud, quiet, loud, loud: success at the 4th reading
C14_Witness ==
    /\ SoundCall /\ Ended /\ outcome = "return"
    /\ consecutive_samples = IntArg(2)
    /\ yielded = << <<30>>, <<10>>, <<30>>, <<30>> >>

\* C15: within one stream, start_timestamp is set once, to the timestamp of
\* the first message received, and no later message changes it, whatever
\* that timestamp is (0 included).
C15_StartTimeIsFirstTimestamp ==
    yielded # <<>> => start_timestamp = <<first_ts>>

\* the stream has yielded a reading whose message came more than
\* timeout_secs after the first one
YieldedPastTimeout ==
    yielded # <<>> /\ last_ts - first_ts > timeout_secs * NsPerSec

\* C16: every detector call terminates, and in particular ensure_no_glitch
\* has returned once a message more than timeout_secs after the first one
\* was received, unless a glitch was detected: no reading that late is
\* ever handed to the detector, the call is over and has returned.
C16_ReturnsOnceTimeoutPassed ==
    (GlitchCall /\ YieldedPastTimeout /\ outcome # "GlitchDetected") =>
        /\ pc \in {"closing", "idle"}
        /\ outcome = "return"

\* the readings ensure_no_glitch has consumed without raising
Accepted ==
    IF outcome = "GlitchDetected" THEN Len(yielded) - 1 ELSE Len(yielded)

\* the float f equals the sum of the mean-across-channels levels of the
\* first n readings
IsSumOfMeans(f, n) == f = SumOfMeans(n)

\* the float t equals th plus the mean of the first n >= 1 readings
IsThresholdAfter(t, n, th) == t = ThresholdAfter(n, th)

\* C17: in ensure_no_glitch, after each reading consumed without raising,
\* num_samples is the number of readings consumed so far, sum_levels is the
\* sum of their mean-across-channels levels, and threshold_level is
\* threshold + sum_levels / num_samples (infinity before the first one).
C17_RunningMeanState ==
    GlitchCall =>
        /\ num_samples = Accepted
        /\ IsSumOfMeans(sum_levels, Accepted)
        /\ Accepted = 0 => threshold_level = Inf
        /\ Accepted >= 1 =>
               /\ IsThresholdAfter(threshold_level, Accepted, threshold)
               /\ threshold_level =
                      FloatAdd(FloatOfInt(threshold),
                              FloatDivInt(sum_levels, num_samples))

\* three readings of three channels with threshold 5: the means 19/3, 52/3
\* and 19/3 add up to the float 29.999999999999996 = (15 * 2^49 - 1) / 2^48,
\* and threshold_level is 14.999999999999998 = (15 * 2^49 - 1) / 2^49
C17_Witness ==
    /\ GlitchCall /\ pc = "ensure_no_glitch" /\ threshold = 5
    /\ yielded = << <<2, 2, 15>>, <<11, 11, 30>>, <<2, 2, 15>> >>
    /\ num_samples = 3
    /\ sum_levels = [inf |-> FALSE, neg |-> FALSE,
                     mant |-> <<32767, 32767, 32767, 239>>, exp |-> -48]
    /\ threshold_level = [inf |-> FALSE, neg |-> FALSE,
                          mant |-> <<32767, 32767, 32767, 239>>, exp |-> -49]

\* C18: in wait_for_sound the window of flags never holds more than
\* considered_samples entries; after k readings it holds the flags of the
\* last min(k, considered_samples) readings, oldest first, the oldest flag
\* having been evicted by each push into the full window.
C18_WindowHoldsLastFlags ==
    (SoundCall /\ launched = 1) =>
        LET k == Len(yielded)
            n == Len(samples)
        IN /\ n <= considered_samples
           /\ n = IF k <= considered_samples THEN k ELSE considered_samples
           /\ \A i \in 1 .. n : samples[i] = Loud(k - n + i)

\* "2/2" after loud, quiet, quiet: the loud flag has left the window
C18_Witness ==
    /\ SoundCall /\ pc = "wait_for_sound"
    /\ sound_detected_samples = 2 /\ considered_samples = 2
    /\ yielded = << <<30>>, <<10>>, <<10>> >>
    /\ samples = <<FALSE, FALSE>>

\* C19: once a stream has been closed, the on_message invocation is not
\* left blocked on the full queue: with the call over and the pipeline set
\* to NULL nothing takes from that queue any more, so a put that is still
\* blocked then never returns.
C19_CallbackNotLeftBlocked ==
    (pc = "idle" /\ pipeline.state = "NULL") =>
        ~(Blocked /\ Len(last_msg) = QueueMaxSize)

\* C20: for every timeout_secs >= 0 the first message of a stream is yielded
\* as a reading: the stream is never exhausted with zero readings, and a
\* LowAudio raised after exhaustion carries the levels of a reading the
\* stream yielded.
C20_FirstMessageYielded ==
    timeout_secs >= 0 =>
        /\ consumed >= 1 => yielded # <<>>
        /\ stream_end = "timeout" => yielded # <<>>
        /\ outcome # "UnboundLocalError"
        /\ (SoundCall /\ outcome = "LowAudio") =>
               /\ yielded # <<>>
               /\ result.levels = yielded[Len(yielded)]
               /\ result.levels # <<>>

\* timeout 0: the first message is yielded, the second one exhausts the
\* stream, and LowAudio carries the first reading
C20_Witness ==
    /\ SoundCall /\ Ended /\ outcome = "LowAudio" /\ timeout_secs = 0
    /\ consumed = 2 /\ yielded = << <<10>> >>
    /\ result.levels = <<10>>

====
